---- MODULE Spec2Model ----
(***************************************************************************)
(* Shape and data-flow model of the ELUNet network (src/Model/ELUNet.py)   *)
(* and of the cardiac dataset adapter (src/Model/cardiacdata.py).          *)
(*                                                                         *)
(* A tensor is modelled by its shape: batch size n, channel count c and    *)
(* the three spatial sizes sp.  A layer is modelled by the channel widths  *)
(* it was constructed with; applying a layer to a tensor whose channel     *)
(* count differs from the constructed input width raises, as the tensor    *)
(* library does.                                                           *)
(***************************************************************************)
EXTENDS Integers, Sequences, FiniteSets, TLC

VARIABLES
    \* ---- ELUNet: configuration and constructed layers (self.*) ----
    cfg,                    \* constructor arguments
    self_skip_connections,  \* self.skip_connections (ELUNet.py:101)
    down_convs,             \* self.down_convs
    up_convs,               \* self.up_convs
    conv_start,             \* self.conv_start
    conv_final,             \* self.conv_final
    conv,                   \* self.conv, the shared fusion convolution
    \* ---- ELUNet.forward: one call in progress ----
    pc,                     \* "idle", "enc", "dec", "done", "raised"
    inp,                    \* the argument of the current call
    x,                      \* local x
    i,                      \* loop index of the running loop
    encoder_outs,           \* local encoder_outs
    skip_connections,       \* local skip_connections
    skip_src,               \* history: encoder stage that produced each skip
    handed,                 \* history: per decoder call, producer of its skip
    interp,                 \* history: number of F.interpolate calls
    err,                    \* what the call raised ("" when nothing)
    ret,                    \* <<>> or <<[x, skips]>>: the returned pair
    calls,                  \* number of forward calls started
    first,                  \* history: <<>> or <<[inp, pc, err, ret]>> of call 1
    \* ---- crop_img / crop_label applied to a volume ----
    ckind,                  \* "img" or "label": the function applied
    cin,                    \* the volume given
    cout,                   \* results of the successive applications
    \* ---- cardiacdata ----
    given,                  \* history: what the inputs were built from
    folder_name,            \* constructor argument
    info_cfg,               \* text of Info.cfg
    disk,                   \* shapes of the volumes on disk
    dpc,                    \* "new", "constructed", "raised"
    self,                   \* the instance: ptnum, ed, es, img, gt, len, ...
    len_ret,                \* <<>> or <<n>>: what __len__ returned
    item                    \* <<>> or <<[idx, ok, img, gt]>>: last __getitem__

netvars == <<cfg, self_skip_connections, down_convs, up_convs, conv_start,
             conv_final, conv, pc, inp, x, i, encoder_outs, skip_connections,
             skip_src, handed, interp, err, ret, calls, first>>

cropvars == <<ckind, cin, cout>>

datavars == <<given, folder_name, info_cfg, disk, dpc, self, len_ret, item>>

vars == <<netvars, cropvars, datavars>>

----------------------------------------------------------------------------
(* Bounds of the model *)

MaxDepth == 4
MaxFilts == 2
MaxCalls == 2

Depths == 1..MaxDepth
StartFilts == 1..MaxFilts
UpModes == {"transpose", "trilinear"}
InChannels == {1, 3}
\* spatial sizes offered to forward: multiples of 2^(depth-1), odd sizes and
\* sizes too small to be pooled depth-1 times
SpatialShapes == {<<8, 8, 8>>, <<16, 8, 24>>, <<6, 8, 4>>, <<9, 8, 8>>, <<1, 2, 2>>}
BatchSizes == {1, 2}

----------------------------------------------------------------------------
(* Arithmetic helpers *)

RECURSIVE Pow2(_)
Pow2(k) == IF k = 0 THEN 1 ELSE 2 * Pow2(k - 1)

\* seq[-k] of Python for k >= 1: the k-th element from the end
PyNegIndex(seq, k) == seq[Len(seq) - k + 1]
PyNegIndexOk(seq, k) == k >= 1 /\ k <= Len(seq)

----------------------------------------------------------------------------
(* Layers *)

Conv(ins, outs) == [in |-> ins, out |-> outs]

conv3x3(in_channels, out_channels) == Conv(in_channels, out_channels)

conv1x1(in_channels, out_channels) == Conv(in_channels, out_channels)

\* both branches of upconv2x2 change the channel count in -> out and double
\* every spatial size
upconv2x2(in_channels, out_channels, mode) ==
    [in |-> in_channels, out |-> out_channels,
     kind |-> IF mode = "transpose" THEN "ConvTranspose3d" ELSE "Upsample+conv1x1"]

DsBlock(in_channels, out_channels, pooling) ==
    [conv |-> conv3x3(in_channels, out_channels), pooling |-> pooling]

UsBlock(in_channels, out_channels, up_mode) ==
    [kind |-> "UsBlock",
     out_channels |-> out_channels,
     upconv |-> upconv2x2(in_channels, out_channels, up_mode),
     conv |-> conv3x3(in_channels + out_channels, out_channels)]

UsBlockRes(in_channels, out_channels, up_mode) ==
    [kind |-> "UsBlockRes",
     out_channels |-> out_channels,
     upconv |-> upconv2x2(in_channels, out_channels, up_mode),
     conv |-> conv3x3(out_channels + out_channels, out_channels)]

----------------------------------------------------------------------------
(* ELUNet.__init__ *)

EncIns(start_filts, k) == start_filts * Pow2(k)

EncOuts(ins) == ins * 2

\* variant: the last stage pools too
EncPoolingAll(k, depth) == k < depth

\* pooling = True if i < depth - 1 else False
EncPooling(k, depth) == k < depth - 1

\* the encoder loop, stage k = 0 .. depth-1
BuildDownConvs(depth, start_filts) ==
    [k \in 1..depth |->
        DsBlock(EncIns(start_filts, k - 1),
                EncOuts(EncIns(start_filts, k - 1)),
                EncPooling(k - 1, depth))]

\* value of the variable outs when the encoder loop ends
OutsAfterEncoder(depth, start_filts) == EncOuts(EncIns(start_filts, depth - 1))

DecOuts(ins) == ins \div 2

\* value of outs after j iterations of the decoder loop
RECURSIVE OutsAfterDecoder(_, _, _)
OutsAfterDecoder(depth, start_filts, j) ==
    IF j = 0 THEN OutsAfterEncoder(depth, start_filts)
    ELSE DecOuts(OutsAfterDecoder(depth, start_filts, j - 1))

UpConvFor(res, ins, outs, up_mode) ==
    IF res THEN UsBlockRes(ins + outs, outs, up_mode)
    ELSE UsBlock(ins, outs, up_mode)

\* the decoder loop, iteration j = 0 .. depth-2
BuildUpConvs(depth, start_filts, up_mode, res) ==
    [j \in 1..(depth - 1) |->
        UpConvFor(res,
                  OutsAfterDecoder(depth, start_filts, j - 1),
                  OutsAfterDecoder(depth, start_filts, j),
                  up_mode)]

FinalOuts(depth, start_filts) == OutsAfterDecoder(depth, start_filts, depth - 1)

Configs ==
    [num_classes : {4}, in_channels : InChannels, depth : Depths,
     start_filts : StartFilts, up_mode : UpModes, res : BOOLEAN]

NoTensor == [n |-> 0, c |-> 0, sp |-> <<0, 0, 0>>]

NetAfterInit(c) ==
    /\ cfg = c
    /\ self_skip_connections = <<>>
    /\ down_convs = BuildDownConvs(cfg.depth, cfg.start_filts)
    /\ up_convs = BuildUpConvs(cfg.depth, cfg.start_filts, cfg.up_mode, cfg.res)
    /\ conv_start = conv3x3(cfg.in_channels, cfg.start_filts)
    /\ conv_final = conv1x1(FinalOuts(cfg.depth, cfg.start_filts), cfg.num_classes)
    /\ conv = conv3x3(FinalOuts(cfg.depth, cfg.start_filts) * 2,
                      FinalOuts(cfg.depth, cfg.start_filts))
    /\ pc = "idle"
    /\ inp = NoTensor
    /\ x = NoTensor
    /\ i = 0
    /\ encoder_outs = <<>>
    /\ skip_connections = <<>>
    /\ skip_src = <<>>
    /\ handed = <<>>
    /\ interp = 0
    /\ err = ""
    /\ ret = <<>>
    /\ calls = 0
    /\ first = <<>>

----------------------------------------------------------------------------
(* Layer application.  A result is [ok, x, interp, err]. *)

Ok(t, n) == [ok |-> TRUE, x |-> t, interp |-> n, err |-> ""]
\* a layer raised after n calls of F.interpolate had been made
RaiseAfter(msg, n) == [ok |-> FALSE, x |-> NoTensor, interp |-> n, err |-> msg]

Raise(msg) == RaiseAfter(msg, 0)

\* nn.Conv3d, kernel 3 padding 1 or kernel 1: spatial size kept
ApplyConv(layer, t) ==
    IF t.c # layer.in THEN Raise("channels")
    ELSE Ok([n |-> t.n, c |-> layer.out, sp |-> t.sp], 0)

PoolSize(s) == s \div 2

\* nn.MaxPool3d(kernel_size=2, stride=2, padding=0)
ApplyMaxPool(t) ==
    IF \E d \in 1..3 : PoolSize(t.sp[d]) = 0 THEN Raise("pool")
    ELSE Ok([n |-> t.n, c |-> t.c, sp |-> [d \in 1..3 |-> PoolSize(t.sp[d])]], 0)

UpSize(s) == 2 * s

UpSpatial(sp) == [d \in 1..3 |-> UpSize(sp[d])]

\* ConvTranspose3d(kernel 2, stride 2), or Upsample(scale 2) then conv1x1
ApplyUpconv(layer, t) ==
    IF t.c # layer.in THEN Raise("channels")
    ELSE Ok([n |-> t.n, c |-> layer.out, sp |-> UpSpatial(t.sp)], 0)

\* F.interpolate(t, size=sp)
Interpolate(t, sp) == [n |-> t.n, c |-> t.c, sp |-> sp]

\* torch.cat([a, b], dim=1)
ApplyCat(a, b) ==
    IF a.n # b.n \/ a.sp # b.sp THEN Raise("cat")
    ELSE Ok([n |-> a.n, c |-> a.c + b.c, sp |-> a.sp], 0)

\* DsBlock.forward: [ok, out, before_pool, err]
DsBlock_forward(m, t) ==
    LET r == ApplyConv(m.conv, t)
        p == ApplyMaxPool(r.x)
    IN  IF ~r.ok THEN [ok |-> FALSE, out |-> NoTensor, before_pool |-> NoTensor, err |-> r.err]
        ELSE IF ~m.pooling THEN [ok |-> TRUE, out |-> r.x, before_pool |-> r.x, err |-> ""]
        ELSE IF ~p.ok THEN [ok |-> FALSE, out |-> NoTensor, before_pool |-> NoTensor, err |-> p.err]
        ELSE [ok |-> TRUE, out |-> p.x, before_pool |-> r.x, err |-> ""]

\* UsBlock.forward: before_pool is not used
UsBlock_forward(m, before_pool, t) ==
    LET u == ApplyUpconv(m.upconv, t)
    IN  IF ~u.ok THEN Raise("upconv channels")
        ELSE LET r == ApplyConv(m.conv, u.x)
             IN  IF ~r.ok THEN Raise("block conv channels") ELSE r

\* UsBlockRes.forward
UsBlockRes_forward(m, before_pool, t) ==
    LET u == ApplyUpconv(m.upconv, t)
    IN  IF ~u.ok THEN Raise("upconv channels")
        ELSE LET differ == before_pool.sp # u.x.sp
                 bp == IF differ THEN Interpolate(before_pool, u.x.sp) ELSE before_pool
                 k == ApplyCat(u.x, bp)
                 calls_made == IF differ THEN 1 ELSE 0
             IN  IF ~k.ok THEN RaiseAfter("block cat", calls_made)
                 ELSE LET r == ApplyConv(m.conv, k.x)
                      IN  IF ~r.ok THEN RaiseAfter("block conv channels", calls_made)
                          ELSE Ok(r.x, calls_made)

UpModule_forward(m, before_pool, t) ==
    IF m.kind = "UsBlockRes" THEN UsBlockRes_forward(m, before_pool, t)
    ELSE UsBlock_forward(m, before_pool, t)

\* body of the decoder loop of ELUNet.forward, iteration k (0-based)
DecoderBody(k, module, t, skips, outs, fusion) ==
    IF ~PyNegIndexOk(skips, k + 1) THEN Raise("index")
    ELSE LET r == UpModule_forward(module, PyNegIndex(skips, k + 1), t)
         IN  IF ~r.ok THEN r
             ELSE LET before_pool == PyNegIndex(outs, k + 1)
                      differ == before_pool.sp # r.x.sp
                      bp == IF differ THEN Interpolate(before_pool, r.x.sp) ELSE before_pool
                      c == ApplyCat(r.x, bp)
                      calls_made == r.interp + (IF differ THEN 1 ELSE 0)
                  IN  IF ~c.ok THEN RaiseAfter("cat", calls_made)
                      ELSE LET f == ApplyConv(fusion, c.x)
                           IN  IF ~f.ok THEN RaiseAfter("fusion conv channels", calls_made)
                               ELSE Ok(f.x, calls_made)

----------------------------------------------------------------------------
(* ELUNet.forward *)

Inputs ==
    {[n |-> b, c |-> ch, sp |-> s] : b \in BatchSizes, ch \in InChannels, s \in SpatialShapes}

\* lists a call starts with
FreshEncoderOuts == <<>>

\* variant: the list outlives the call, as an attribute of self would
FreshSkipsCarried == skip_connections

FreshSkips == <<>>

Finish(status, e, r, t) ==
    /\ pc' = status
    /\ err' = e
    /\ ret' = r
    /\ first' = IF first = <<>>
                THEN <<[inp |-> t, pc |-> status, err |-> e, ret |-> r]>>
                ELSE first

FrameSelf ==
    UNCHANGED <<cfg, self_skip_connections, down_convs, up_convs, conv_start,
                conv_final, conv, cropvars, datavars>>

\* def forward(self, x): up to the first loop
ForwardCall(t) ==
    /\ pc \in {"idle", "done", "raised"}
    /\ calls < MaxCalls
    /\ calls' = calls + 1
    /\ inp' = t
    /\ handed' = <<>>
    /\ interp' = 0
    /\ i' = 0
    /\ LET r == ApplyConv(conv_start, t)
       IN  IF r.ok
           THEN /\ x' = r.x
                /\ encoder_outs' = FreshEncoderOuts
                /\ skip_connections' = FreshSkips
                /\ skip_src' = [k \in 1..Len(skip_connections') |-> -1]
                /\ pc' = "enc"
                /\ err' = ""
                /\ ret' = <<>>
                /\ UNCHANGED first
           ELSE /\ x' = t
                /\ encoder_outs' = <<>>
                /\ skip_connections' = <<>>
                /\ skip_src' = <<>>
                /\ Finish("raised", "conv_start channels", <<>>, t)
    /\ FrameSelf

\* one iteration of: for i, module in enumerate(self.down_convs)
EncoderStep ==
    /\ pc = "enc"
    /\ i < Len(down_convs)
    /\ LET r == DsBlock_forward(down_convs[i + 1], x)
       IN  IF r.ok
           THEN /\ x' = r.out
                /\ encoder_outs' = Append(encoder_outs, r.before_pool)
                /\ IF i < Len(down_convs) - 1
                   THEN /\ skip_connections' = Append(skip_connections, r.out)
                        /\ skip_src' = Append(skip_src, i)
                   ELSE UNCHANGED <<skip_connections, skip_src>>
                /\ IF i + 1 < Len(down_convs)
                   THEN pc' = "enc" /\ i' = i + 1
                   ELSE pc' = "dec" /\ i' = 0
                /\ UNCHANGED <<err, ret, first>>
           ELSE /\ Finish("raised", "encoder " \o r.err, <<>>, inp)
                /\ UNCHANGED <<x, encoder_outs, skip_connections, skip_src, i>>
    /\ UNCHANGED <<inp, handed, interp, calls>>
    /\ FrameSelf

\* one iteration of: for i, module in enumerate(self.up_convs)
DecoderStep ==
    /\ pc = "dec"
    /\ i < Len(up_convs)
    /\ handed' = IF PyNegIndexOk(skip_src, i + 1)
                 THEN Append(handed, PyNegIndex(skip_src, i + 1))
                 ELSE handed
    /\ LET r == DecoderBody(i, up_convs[i + 1], x, skip_connections, encoder_outs, conv)
       IN  IF r.ok
           THEN /\ x' = r.x
                /\ i' = i + 1
                /\ interp' = interp + r.interp
                /\ UNCHANGED <<pc, err, ret, first>>
           ELSE /\ Finish("raised", r.err, <<>>, inp)
                /\ interp' = interp + r.interp
                /\ UNCHANGED <<x, i>>
    /\ UNCHANGED <<inp, encoder_outs, skip_connections, skip_src, calls>>
    /\ FrameSelf

\* return x, tuple(skip_connections)
Return ==
    /\ pc = "dec"
    /\ i = Len(up_convs)
    /\ Finish("done", "", <<[x |-> x, skips |-> skip_connections]>>, inp)
    /\ UNCHANGED <<inp, x, i, encoder_outs, skip_connections, skip_src, handed,
                   interp, calls>>
    /\ FrameSelf

NextNet ==
    \/ \E t \in Inputs : ForwardCall(t)
    \/ EncoderStep
    \/ DecoderStep
    \/ Return

----------------------------------------------------------------------------
(* numpy arrays.  An array is modelled by its shape, its dtype and the     *)
(* blocks that tile it.  A block lies at an offset (0-based, per axis) and *)
(* holds, per axis, the labels of its positions: the label of a position   *)
(* is the index (0-based) the element had on that axis in the file the     *)
(* block was read from, 0 on an axis added by np.expand_dims, -1 in a      *)
(* block filled by np.zeros; picked holds the labels of the axes indexing  *)
(* took away.  vals tells what the elements of a block are:                *)
(*   "file"     the file's element at the labels of the position, or 0 in  *)
(*              a filled block;                                            *)
(*   "zscore"   the float32 that normalize_img made of an element of an    *)
(*              array whose elements were not all equal: the element less  *)
(*              the mean, over the standard deviation (not 0), of that     *)
(*              array;                                                     *)
(*   "nan"      nan;                                                       *)
(*   "computed" what arithmetic or a cast made of elements that were not   *)
(*              the file's any more: a value, nan included, that the       *)
(*              blocks do not determine.                                   *)
(* A file holds zeros only (content "zeros"), or whole numbers from 1 to   *)
(* 127 of which any two next to each other along an axis differ (content   *)
(* "varied"); every dtype holds these numbers as they are.  A block has at *)
(* least one position.                                                     *)

Arange(n) == [k \in 1..n |-> k - 1]

Shape(a) == a.shape

RECURSIVE Product(_)
Product(ns) == IF ns = <<>> THEN 1 ELSE Head(ns) * Product(Tail(ns))

\* number of elements of a
Size(a) == Product(Shape(a))

PartShape(p) == [k \in 1..Len(p.axes) |-> Len(p.axes[k])]

NoArray == [shape |-> <<>>, dtype |-> "", parts |-> <<>>]

ArrOk(a) == [ok |-> TRUE, a |-> a]
ArrRaise == [ok |-> FALSE, a |-> NoArray]

\* the blocks of an array of one block, none for an array without elements
OnePart(shape, p) == IF Product(shape) = 0 THEN <<>> ELSE <<p>>

\* the array sitk.GetArrayFromImage(sitk.ReadImage(name)) returns
FromFile(name, shape, dtype, content) ==
    [shape |-> shape, dtype |-> dtype,
     parts |-> OnePart(shape, [at |-> [k \in 1..Len(shape) |-> 0],
                               axes |-> [k \in 1..Len(shape) |-> Arange(shape[k])],
                               picked |-> <<>>, fill |-> FALSE, file |-> name,
                               content |-> content, vals |-> "file"])]

\* np.zeros(shape, dtype=np.float32)
Zeros(shape) ==
    [shape |-> shape, dtype |-> "float32",
     parts |-> OnePart(shape, [at |-> [k \in 1..Len(shape) |-> 0],
                               axes |-> [k \in 1..Len(shape) |-> [j \in 1..shape[k] |-> -1]],
                               picked |-> <<>>, fill |-> TRUE, file |-> <<>>,
                               content |-> "zeros", vals |-> "file"])]

\* bound of a Python slice on a sequence of length n
PyClamp(b, n) == IF b < 0 THEN (IF b + n < 0 THEN 0 ELSE b + n) ELSE (IF b > n THEN n ELSE b)

\* seq[start:stop]
PySlice(seq, start, stop) ==
    LET b == PyClamp(start, Len(seq))
        e == PyClamp(stop, Len(seq))
    IN  [k \in 1..(e - b) |-> seq[b + k]]

MaxOf(m, n) == IF m >= n THEN m ELSE n

MinOf(m, n) == IF m <= n THEN m ELSE n

\* a[..., start:stop, ...] on axis k (1-based)
SliceAxis(a, k, start, stop) ==
    LET b == PyClamp(start, a.shape[k])
        e == MaxOf(b, PyClamp(stop, a.shape[k]))
        Lo(p) == MaxOf(p.at[k], b)
        Hi(p) == MinOf(p.at[k] + Len(p.axes[k]), e)
        kept == SelectSeq(a.parts, LAMBDA p : Lo(p) < Hi(p))
        Cut(p) ==
            [at |-> [j \in 1..Len(p.at) |-> IF j = k THEN Lo(p) - b ELSE p.at[j]],
             axes |-> [j \in 1..Len(p.axes) |->
                          IF j = k
                          THEN [m \in 1..(Hi(p) - Lo(p)) |-> p.axes[k][Lo(p) - p.at[k] + m]]
                          ELSE p.axes[j]],
             picked |-> p.picked, fill |-> p.fill, file |-> p.file,
             content |-> p.content, vals |-> p.vals]
    IN  [shape |-> [j \in 1..Len(a.shape) |-> IF j = k THEN e - b ELSE a.shape[j]],
         dtype |-> a.dtype,
         parts |-> [n \in 1..Len(kept) |-> Cut(kept[n])]]

\* numpy dtypes: kind (unsigned, signed, float) and width in bits
DTypes ==
    {[name |-> "uint8", kind |-> "u", bits |-> 8], [name |-> "uint16", kind |-> "u", bits |-> 16],
     [name |-> "uint32", kind |-> "u", bits |-> 32], [name |-> "uint64", kind |-> "u", bits |-> 64],
     [name |-> "int8", kind |-> "i", bits |-> 8], [name |-> "int16", kind |-> "i", bits |-> 16],
     [name |-> "int32", kind |-> "i", bits |-> 32], [name |-> "int64", kind |-> "i", bits |-> 64],
     [name |-> "float16", kind |-> "f", bits |-> 16], [name |-> "float32", kind |-> "f", bits |-> 32],
     [name |-> "float64", kind |-> "f", bits |-> 64]}

DTypeOf(name) == CHOOSE d \in DTypes : d.name = name

DTypeNamed(kind, bits) == (CHOOSE d \in DTypes : d.kind = kind /\ d.bits = bits).name

\* width of the smallest float that holds every integer of the given width
FloatBitsFor(bits) == IF bits = 8 THEN 16 ELSE IF bits = 16 THEN 32 ELSE 64

\* np.promote_types(d1, d2), the dtype np.concatenate gives its result
Promote(d1, d2) ==
    IF d1 = d2 THEN d1
    ELSE LET a == DTypeOf(d1)
             b == DTypeOf(d2)
             f == IF a.kind = "f" THEN a ELSE b
             n == IF a.kind = "f" THEN b ELSE a
             u == IF a.kind = "u" THEN a ELSE b
             g == IF a.kind = "u" THEN b ELSE a
         IN  IF a.kind = "f" /\ b.kind = "f" THEN DTypeNamed("f", MaxOf(a.bits, b.bits))
             ELSE IF a.kind = "f" \/ b.kind = "f"
                  THEN DTypeNamed("f", MaxOf(f.bits, FloatBitsFor(n.bits)))
             ELSE IF a.kind = b.kind THEN DTypeNamed(a.kind, MaxOf(a.bits, b.bits))
             ELSE IF g.bits > u.bits THEN g.name
             ELSE IF u.bits < 64 THEN DTypeNamed("i", 2 * u.bits)
             ELSE "float64"

\* np.concatenate((a, b), axis): every other axis must have the same length;
\* the elements of b follow those of a
Concatenate(a, b, axis) ==
    IF \/ Len(a.shape) # Len(b.shape)
       \/ \E k \in 1..Len(a.shape) : k # axis /\ a.shape[k] # b.shape[k]
    THEN ArrRaise
    ELSE LET Moved(p) ==
                 [at |-> [j \in 1..Len(p.at) |->
                             IF j = axis THEN p.at[j] + a.shape[axis] ELSE p.at[j]],
                  axes |-> p.axes, picked |-> p.picked, fill |-> p.fill, file |-> p.file,
                  content |-> p.content, vals |-> p.vals]
         IN  ArrOk([shape |-> [j \in 1..Len(a.shape) |->
                                  IF j = axis THEN a.shape[j] + b.shape[j] ELSE a.shape[j]],
                    dtype |-> Promote(a.dtype, b.dtype),
                    parts |-> a.parts \o [n \in 1..Len(b.parts) |-> Moved(b.parts[n])]])

\* np.expand_dims(a, axis=0)
ExpandDims0(a) ==
    LET Lifted(p) ==
            [at |-> <<0>> \o p.at, axes |-> <<<<0>>>> \o p.axes, picked |-> p.picked,
             fill |-> p.fill, file |-> p.file, content |-> p.content, vals |-> p.vals]
    IN  [shape |-> <<1>> \o a.shape, dtype |-> a.dtype,
         parts |-> [n \in 1..Len(a.parts) |-> Lifted(a.parts[n])]]

RECURSIVE Flat(_)
Flat(ss) == IF ss = <<>> THEN <<>> ELSE Head(ss) \o Flat(Tail(ss))

\* np.reshape(a, [s0 * s1, s2, s3]): the two leading axes merged, row-major;
\* a position of the merged axis is labelled by the pair of its labels
ReshapeMerge01(a) ==
    LET n2 == a.shape[2]
        Row(p, r) ==
            [at |-> <<(p.at[1] + r - 1) * n2 + p.at[2]>>
                        \o [j \in 1..(Len(p.at) - 2) |-> p.at[j + 2]],
             axes |-> <<[c \in 1..Len(p.axes[2]) |-> <<p.axes[1][r], p.axes[2][c]>>]>>
                        \o [j \in 1..(Len(p.axes) - 2) |-> p.axes[j + 2]],
             picked |-> p.picked, fill |-> p.fill, file |-> p.file,
             content |-> p.content, vals |-> p.vals]
        Rows(p) == [r \in 1..Len(p.axes[1]) |-> Row(p, r)]
    IN  [shape |-> <<a.shape[1] * n2>> \o [j \in 1..(Len(a.shape) - 2) |-> a.shape[j + 2]],
         dtype |-> a.dtype,
         parts |-> Flat([n \in 1..Len(a.parts) |-> Rows(a.parts[n])])]

\* a[idx] on the leading axis
Index0(a, idx) ==
    LET n == a.shape[1]
        at0 == IF idx < 0 THEN idx + n ELSE idx
        kept == SelectSeq(a.parts,
                          LAMBDA p : p.at[1] <= at0 /\ at0 < p.at[1] + Len(p.axes[1]))
        Taken(p) ==
            [at |-> Tail(p.at), axes |-> Tail(p.axes),
             picked |-> Append(p.picked, p.axes[1][at0 - p.at[1] + 1]),
             fill |-> p.fill, file |-> p.file, content |-> p.content, vals |-> p.vals]
    IN  IF idx >= n \/ idx < -n THEN ArrRaise
        ELSE ArrOk([shape |-> Tail(a.shape), dtype |-> a.dtype,
                    parts |-> [m \in 1..Len(kept) |-> Taken(kept[m])]])

\* a.astype(dtype): an element of a file is a whole number that dtype holds
\* as it is; nan stays nan in a float, a float32 stays what it is in float32
\* and float64; any other cast rounds, truncates or wraps
AsType(a, dtype) ==
    LET Cast(p) ==
            [at |-> p.at, axes |-> p.axes, picked |-> p.picked, fill |-> p.fill,
             file |-> p.file, content |-> p.content,
             vals |-> IF p.vals = "file" THEN "file"
                      ELSE IF p.vals = "nan" /\ DTypeOf(dtype).kind = "f" THEN "nan"
                      ELSE IF p.vals = "zscore" /\ dtype \in {"float32", "float64"}
                           THEN "zscore"
                      ELSE "computed"]
    IN  [shape |-> a.shape, dtype |-> dtype,
         parts |-> [n \in 1..Len(a.parts) |-> Cast(a.parts[n])]]

----------------------------------------------------------------------------
(* cardiacdata.py: the functions *)

sizex == 144
sizey == 144
sizez == 8

\* int(n / 2) for n >= 0
HalfInt(n) == n \div 2

\* [mid - int(size / 2) : mid + int(size / 2)] on axis k
\* variant: a window one position short
CropWindowShort(a, k, mid, size) ==
    SliceAxis(a, k, mid - HalfInt(size), mid + HalfInt(size) - 1)

CropWindow(a, k, mid, size) ==
    SliceAxis(a, k, mid - HalfInt(size), mid + HalfInt(size))

\* every element of the block is 0: the block was filled by np.zeros or read
\* from a file of zeros, and nothing has changed its elements since
HoldsZeros(p) == p.vals = "file" /\ (p.fill \/ p.content = "zeros")

\* the block holds elements of a file as they were read, two of them next to
\* each other
Varies(p) == p.vals = "file" /\ ~HoldsZeros(p) /\ Product(PartShape(p)) > 1

\* the elements of the blocks p and q all have one value: both blocks hold
\* zeros, or both hold the one element at the same place of the same file
SameValue(p, q) ==
    /\ p.vals = "file"
    /\ q.vals = "file"
    /\ IF HoldsZeros(p) \/ HoldsZeros(q) THEN HoldsZeros(p) /\ HoldsZeros(q)
       ELSE /\ Product(PartShape(p)) = 1
            /\ Product(PartShape(q)) = 1
            /\ p.file = q.file
            /\ p.axes = q.axes
            /\ p.picked = q.picked

\* np.std(a) = 0, for an array of elements as they were read: they are all
\* equal
AllEqual(a) ==
    \A m \in 1..Len(a.parts) : \A n \in 1..Len(a.parts) : SameValue(a.parts[m], a.parts[n])

\* np.std(a) > 0, for an array of elements as they were read: a block holds
\* two elements that differ, or one block holds zeros and another does not
SomeDiffer(a) ==
    /\ \A n \in 1..Len(a.parts) : a.parts[n].vals = "file"
    /\ \/ \E n \in 1..Len(a.parts) : Varies(a.parts[n])
       \/ \E m \in 1..Len(a.parts) : \E n \in 1..Len(a.parts) :
             HoldsZeros(a.parts[m]) /\ ~HoldsZeros(a.parts[n])

\* img.copy().astype(np.float32), less np.mean(img), over np.std(img), every
\* element by the same mean and deviation: one nan in img makes the mean, and
\* with it every element, nan; the deviation of equal elements is 0 and
\* 0 / 0 is nan; elements that are whole numbers, not all equal, become their
\* z-scores; of other elements the blocks do not tell whether they are equal
normalize_img(img) ==
    LET copy == AsType(img, "float32")
        made ==
            IF \E n \in 1..Len(copy.parts) : copy.parts[n].vals = "nan" THEN "nan"
            ELSE IF \E n \in 1..Len(copy.parts) : copy.parts[n].vals # "file" THEN "computed"
            ELSE IF AllEqual(copy) THEN "nan"
            ELSE IF SomeDiffer(copy) THEN "zscore"
            ELSE "computed"
        Scaled(p) ==
            [at |-> p.at, axes |-> p.axes, picked |-> p.picked, fill |-> p.fill,
             file |-> p.file, content |-> p.content, vals |-> made]
    IN  [shape |-> copy.shape, dtype |-> copy.dtype,
         parts |-> [n \in 1..Len(copy.parts) |-> Scaled(copy.parts[n])]]

crop_img(img) ==
    LET sh == Shape(img)
        midptx == HalfInt(sh[3])
        midpty == HalfInt(sh[4])
        plane == CropWindow(CropWindow(img, 3, midptx, sizex), 4, midpty, sizey)
    IN  IF sh[2] < 8
        THEN Concatenate(plane, Zeros(<<sh[1], 8 - sh[2], 144, 144>>), 2)
        ELSE ArrOk(CropWindow(plane, 2, HalfInt(sh[2]), sizez))

crop_label(img) ==
    LET sh == Shape(img)
        midptx == HalfInt(sh[2])
        midpty == HalfInt(sh[3])
        plane == CropWindow(CropWindow(img, 2, midptx, sizex), 3, midpty, sizey)
    IN  IF sh[1] < 8
        THEN Concatenate(plane, Zeros(<<8 - sh[1], 144, 144>>), 1)
        ELSE ArrOk(CropWindow(plane, 1, HalfInt(sh[1]), sizez))

----------------------------------------------------------------------------
(* Python strings, as sequences of Unicode code points *)

\* the code point of the digit 0 of each run of ten decimal digits (Unicode
\* category Nd): 48 is "0", 1632 ARABIC-INDIC DIGIT ZERO, ...
DecimalZeros ==
    {48, 1632, 1776, 1984, 2406, 2534, 2662, 2790, 2918, 3046,
     3174, 3302, 3430, 3558, 3664, 3792, 3872, 4160, 4240, 6112,
     6160, 6470, 6608, 6784, 6800, 6992, 7088, 7232, 7248, 42528,
     43216, 43264, 43472, 43504, 43600, 44016, 65296, 66720, 68912, 69734,
     69872, 69942, 70096, 70384, 70736, 70864, 71248, 71360, 71472, 71904,
     72016, 72784, 73040, 73120, 92768, 92864, 93008, 120782, 120792, 120802,
     120812, 120822, 123200, 123632, 125264, 130032}

\* c matches \d
IsDigit(c) == \E z \in DecimalZeros : c \in z..(z + 9)

DigitValue(c) == c - (CHOOSE z \in DecimalZeros : c \in z..(z + 9))

\* re.findall(r'\d+', s): [found, run] for the first match
FirstDigitRun(s) ==
    IF \A k \in 1..Len(s) : ~IsDigit(s[k])
    THEN [found |-> FALSE, run |-> <<>>]
    ELSE LET b == CHOOSE k \in 1..Len(s) :
                      IsDigit(s[k]) /\ \A j \in 1..(k - 1) : ~IsDigit(s[j])
             e == CHOOSE k \in b..Len(s) :
                      /\ \A j \in b..k : IsDigit(s[j])
                      /\ (k = Len(s) \/ ~IsDigit(s[k + 1]))
         IN  [found |-> TRUE, run |-> SubSeq(s, b, e)]

\* s.zfill(width): zeros go after a leading "+" (43) or "-" (45)
zfill(s, width) ==
    IF Len(s) >= width THEN s
    ELSE LET fill == [k \in 1..(width - Len(s)) |-> 48]
         IN  IF s # <<>> /\ s[1] \in {43, 45} THEN <<s[1]>> \o fill \o Tail(s)
             ELSE fill \o s

\* s.split(sep) for a one-character separator
RECURSIVE Split(_, _)
Split(s, sep) ==
    IF \A k \in 1..Len(s) : s[k] # sep THEN <<s>>
    ELSE LET p == CHOOSE k \in 1..Len(s) : s[k] = sep /\ \A j \in 1..(k - 1) : s[j] # sep
         IN  <<SubSeq(s, 1, p - 1)>> \o Split(SubSeq(s, p + 1, Len(s)), sep)

\* the white space int() strips: tab to carriage return, space, and the
\* white space beyond ASCII (the separators 28 to 31 are not stripped)
IntSpaces ==
    {9, 10, 11, 12, 13, 32, 133, 160, 5760, 8192,
     8193, 8194, 8195, 8196, 8197, 8198, 8199, 8200, 8201, 8202,
     8232, 8233, 8239, 8287, 12288}

IsSpace(c) == c \in IntSpaces

RECURSIVE LStrip(_)
LStrip(s) == IF s # <<>> /\ IsSpace(Head(s)) THEN LStrip(Tail(s)) ELSE s

RECURSIVE RStrip(_)
RStrip(s) ==
    IF s # <<>> /\ IsSpace(s[Len(s)]) THEN RStrip(SubSeq(s, 1, Len(s) - 1)) ELSE s

RECURSIVE DecimalValue(_)
DecimalValue(ds) ==
    IF ds = <<>> THEN 0
    ELSE 10 * DecimalValue(SubSeq(ds, 1, Len(ds) - 1)) + DigitValue(ds[Len(ds)])

\* int(s): white space, an optional sign, then decimal digits, where one
\* "_" (95) may stand between two digits
PyInt(s) ==
    LET t == RStrip(LStrip(s))
        signed == t # <<>> /\ t[1] \in {43, 45}
        body == IF signed THEN Tail(t) ELSE t
        wellformed ==
            /\ body # <<>>
            /\ \A k \in 1..Len(body) :
                  IF IsDigit(body[k]) THEN TRUE
                  ELSE /\ body[k] = 95
                       /\ k > 1
                       /\ k < Len(body)
                       /\ IsDigit(body[k - 1])
                       /\ IsDigit(body[k + 1])
        magnitude == DecimalValue(SelectSeq(body, IsDigit))
    IN  IF ~wellformed THEN [ok |-> FALSE, val |-> 0]
        ELSE [ok |-> TRUE, val |-> IF signed /\ t[1] = 45 THEN -magnitude ELSE magnitude]

\* str(n)
RECURSIVE PyStr(_)
PyStr(n) ==
    IF n < 0 THEN <<45>> \o PyStr(-n)
    ELSE IF n < 10 THEN <<48 + n>>
    ELSE PyStr(n \div 10) \o <<48 + (n % 10)>>

----------------------------------------------------------------------------
(* cardiacdata.py: class cardiacdata *)

\* "/Users/darshan/Documents/Engineering/8th-Semester/FrontEnd/ACDC/database/training"
IMG_DIR ==
    <<47, 85, 115, 101, 114, 115, 47, 100, 97, 114, 115, 104, 97, 110, 47, 68,
      111, 99, 117, 109, 101, 110, 116, 115, 47, 69, 110, 103, 105, 110, 101, 101,
      114, 105, 110, 103, 47, 56, 116, 104, 45, 83, 101, 109, 101, 115, 116, 101,
      114, 47, 70, 114, 111, 110, 116, 69, 110, 100, 47, 65, 67, 68, 67, 47,
      100, 97, 116, 97, 98, 97, 115, 101, 47, 116, 114, 97, 105, 110, 105, 110,
      103>>

\* '/patient'
Str_patient == <<47, 112, 97, 116, 105, 101, 110, 116>>

\* '_4d.nii.gz'
Str_4d == <<95, 52, 100, 46, 110, 105, 105, 46, 103, 122>>

\* '_frame'
Str_frame == <<95, 102, 114, 97, 109, 101>>

\* '_gt.nii.gz'
Str_gt == <<95, 103, 116, 46, 110, 105, 105, 46, 103, 122>>

\* open(path, "r").read(): a carriage return (13), with the line feed (10)
\* that follows it if one does, is read as one line feed
RECURSIVE file_read(_)
file_read(s) ==
    IF s = <<>> THEN <<>>
    ELSE IF s[1] # 13 THEN <<s[1]>> \o file_read(Tail(s))
    ELSE IF Len(s) >= 2 /\ s[2] = 10 THEN <<10>> \o file_read(Tail(Tail(s)))
    ELSE <<10>> \o file_read(Tail(s))

\* int(file.read().split("\n")[line].split(":")[1]), line 0-based
ReadFrame(text, line) ==
    LET lines == Split(file_read(text), 10)
    IN  IF Len(lines) < line + 1 THEN [ok |-> FALSE, val |-> 0]
        ELSE LET fields == Split(lines[line + 1], 58)
             IN  IF Len(fields) < 2 THEN [ok |-> FALSE, val |-> 0]
                 ELSE PyInt(fields[2])

GtDir(ptnum, frame_str) ==
    IMG_DIR \o Str_patient \o ptnum \o Str_patient \o ptnum \o Str_frame \o frame_str \o Str_gt

ImgDir(ptnum) == IMG_DIR \o Str_patient \o ptnum \o Str_patient \o ptnum \o Str_4d

\* ptnum = re.findall(r'\d+', folder_name)[0].zfill(3)
PtNum(folder) == zfill(FirstDigitRun(folder).run, 3)

\* variant: end-systole first
SelectPhasesSwapped(img, e_d, e_s) ==
    Concatenate(SliceAxis(img, 1, e_s - 1, e_s), SliceAxis(img, 1, e_d - 1, e_d), 1)

\* dummy_img[f - 1:f] for the two frames, end-diastole first
SelectPhases(img, e_d, e_s) ==
    Concatenate(SliceAxis(img, 1, e_d - 1, e_d), SliceAxis(img, 1, e_s - 1, e_s), 1)

\* np.concatenate((np.expand_dims(ed_label, 0), np.expand_dims(es_label, 0)), 0)
StackLabels(ed_label, es_label) ==
    Concatenate(ExpandDims0(ed_label), ExpandDims0(es_label), 1)

\* variant: the phase axis is not merged into the slice axis
FlattenKeepPhases(a) == ExpandDims0(a)

\* np.expand_dims(np.reshape(a, [s0 * s1, s2, s3]), axis=0)

Flatten(a) == ExpandDims0(ReshapeMerge01(a))

NoData ==
    [ok |-> FALSE, err |-> "", ptnum |-> <<>>, img_dir |-> <<>>, ed |-> 0, es |-> 0,
     gt_dir_ed |-> <<>>, gt_dir_es |-> <<>>, img |-> NoArray, gt |-> NoArray, len |-> 0]

\* the arrays SimpleITK reads from the files of a case: the label file of a
\* frame listed in on_disk.labs has the shape listed, any other on_disk.lab
VolumeOn(on_disk, name) == FromFile(name, on_disk.vol, on_disk.vdtype, on_disk.content)

LabelShape(on_disk, frame_str) ==
    IF \E n \in 1..Len(on_disk.labs) : on_disk.labs[n].frame = frame_str
    THEN on_disk.labs[CHOOSE n \in 1..Len(on_disk.labs) :
                          on_disk.labs[n].frame = frame_str].shape
    ELSE on_disk.lab

LabelOn(on_disk, name, frame_str) ==
    FromFile(name, LabelShape(on_disk, frame_str), on_disk.ldtype, on_disk.content)

\* cardiacdata.__init__(folder_name); the disk holds a 4D volume of shape
\* on_disk.vol and label volumes under the names it builds
cardiacdata_init(folder, text, on_disk) ==
    LET run == FirstDigitRun(folder)
        ptnum == PtNum(folder)
        img_dir == ImgDir(ptnum)
        dummy_img == crop_img(VolumeOn(on_disk, img_dir))
        es == ReadFrame(text, 1)
        es_str == zfill(PyStr(es.val), 2)
        gt_dir_es == GtDir(ptnum, es_str)
        es_label == crop_label(LabelOn(on_disk, gt_dir_es, es_str))
        ed == ReadFrame(text, 0)
        ed_str == zfill(PyStr(ed.val), 2)
        gt_dir_ed == GtDir(ptnum, ed_str)
        ed_label == crop_label(LabelOn(on_disk, gt_dir_ed, ed_str))
        both == SelectPhases(dummy_img.a, ed.val, es.val)
        dummy_gt == StackLabels(ed_label.a, es_label.a)
        Fail(msg) == [NoData EXCEPT !.err = msg]
    IN  IF ~run.found THEN Fail("IndexError: no digits in folder_name")
        ELSE IF ~dummy_img.ok THEN Fail("ValueError: crop_img concatenate")
        ELSE IF ~es.ok THEN Fail("Info.cfg ES")
        ELSE IF ~es_label.ok THEN Fail("ValueError: crop_label concatenate")
        ELSE IF ~ed.ok THEN Fail("Info.cfg ED")
        ELSE IF ~ed_label.ok THEN Fail("ValueError: crop_label concatenate")
        ELSE IF ~both.ok THEN Fail("ValueError: concatenate phases")
        ELSE IF ~dummy_gt.ok THEN Fail("ValueError: concatenate labels")
        ELSE [ok |-> TRUE, err |-> "", ptnum |-> ptnum, img_dir |-> img_dir,
              ed |-> ed.val, es |-> es.val,
              gt_dir_ed |-> gt_dir_ed, gt_dir_es |-> gt_dir_es,
              img |-> Flatten(normalize_img(both.a)),
              gt |-> Flatten(dummy_gt.a),
              len |-> Shape(Flatten(normalize_img(both.a)))[1]]

\* cardiacdata.__getitem__(i): [ok, img, gt]
cardiacdata_getitem(this, idx) ==
    LET img == Index0(this.img, idx)
        gt == Index0(this.gt, idx)
    IN  IF ~img.ok \/ ~gt.ok THEN [ok |-> FALSE, img |-> NoArray, gt |-> NoArray]
        ELSE [ok |-> TRUE,
              img |-> ExpandDims0(AsType(img.a, "float32")),
              gt |-> AsType(AsType(gt.a, "float32"), "int64")]

InitNet == \E c \in Configs : NetAfterInit(c)

IdleNet ==
    NetAfterInit([num_classes |-> 4, in_channels |-> 1, depth |-> 1,
                  start_filts |-> 1, up_mode |-> "transpose", res |-> FALSE])

----------------------------------------------------------------------------
(* The crop functions applied to volumes of bounded shapes *)

MaxPhases == 2
MaxSlices == 10
MaxApply == 2

PlaneSizes == {1, 100, 143, 144, 145, 200, 289}

\* dtypes of the volumes given to crop_img
VolumeDTypes == {"int16", "float64"}

\* the file the volume given to a crop function was read from: "v"
VolumeFile == <<118>>

CropInputs ==
    {[kind |-> "img", a |-> FromFile(VolumeFile, <<t, z, sx, sy>>, d, "varied")] :
        t \in 1..MaxPhases, z \in 1..MaxSlices, sx \in PlaneSizes, sy \in PlaneSizes,
        d \in VolumeDTypes}
    \cup
    {[kind |-> "label", a |-> FromFile(VolumeFile, <<z, sx, sy>>, "uint8", "varied")] :
        z \in 1..MaxSlices, sx \in PlaneSizes, sy \in PlaneSizes}

CropAt(in) ==
    /\ ckind = in.kind
    /\ cin = in.a
    /\ cout = <<>>

InitCrop == \E in \in CropInputs : CropAt(in)

IdleCrop == CropAt([kind |-> "label", a |-> FromFile(VolumeFile, <<1, 1, 1>>, "uint8", "varied")])

CropArg == IF cout = <<>> THEN cin ELSE cout[Len(cout)].a

CanCrop == Len(cout) < MaxApply /\ (IF cout = <<>> THEN TRUE ELSE cout[Len(cout)].ok)

ApplyCropImg ==
    /\ ckind = "img"
    /\ CanCrop
    /\ cout' = Append(cout, crop_img(CropArg))
    /\ UNCHANGED <<ckind, cin, netvars, datavars>>

ApplyCropLabel ==
    /\ ckind = "label"
    /\ CanCrop
    /\ cout' = Append(cout, crop_label(CropArg))
    /\ UNCHANGED <<ckind, cin, netvars, datavars>>

NextCrop == ApplyCropImg \/ ApplyCropLabel

----------------------------------------------------------------------------
(* cardiacdata: construction, __len__, __getitem__ *)

MaxRunLen == 4

\* "0" and "5"
RunDigits == {48, 53}

DigitRuns == UNION {[1..n -> RunDigits] : n \in 1..MaxRunLen}

\* a case number written with ARABIC-INDIC DIGIT THREE (1635)
OtherRuns == {<<1635>>}

\* what surrounds the case number in the folder name: nothing, or "pt" and "_9"
Affixes == {[pre |-> <<>>, suf |-> <<>>], [pre |-> <<112, 116>>, suf |-> <<95, 57>>]}

\* how a frame index is written in Info.cfg: "1", " 01", "1_0", "+12",
\* ARABIC-INDIC DIGIT TWO then NO-BREAK SPACE, "-1"
FrameNumerals ==
    <<[val |-> 1, text |-> <<49>>],
     [val |-> 1, text |-> <<32, 48, 49>>],
     [val |-> 10, text |-> <<49, 95, 48>>],
     [val |-> 12, text |-> <<43, 49, 50>>],
     [val |-> 2, text |-> <<1634, 160>>],
     [val |-> -1, text |-> <<45, 49>>]>>

\* how a line of Info.cfg ends: "\n", "\r\n", "\r"
LineEnds == <<<<10>>, <<13, 10>>, <<13>>>>

\* the numerals of the two lines of Info.cfg and the line end, as positions
\* in FrameNumerals and LineEnds
FramePairs ==
    {<<1, 1, 1>>, <<2, 3, 1>>, <<1, 4, 1>>, <<4, 2, 1>>, <<3, 4, 1>>, <<3, 3, 1>>,
     <<5, 1, 1>>, <<2, 5, 1>>, <<6, 1, 1>>, <<2, 6, 1>>, <<2, 3, 2>>, <<1, 5, 3>>}

\* "ED:" e_d nl "ES:" e_s nl
InfoCfg(e_d, e_s, nl) == <<69, 68, 58>> \o e_d.text \o nl \o <<69, 83, 58>> \o e_s.text \o nl

\* the label file of frame "02" of the fourth case has 9 slices, not 6
Disks ==
    {[vol |-> <<2, 8, 144, 144>>, lab |-> <<8, 144, 144>>,
      vdtype |-> "int16", ldtype |-> "uint8", content |-> "varied", labs |-> <<>>],
     [vol |-> <<12, 8, 144, 144>>, lab |-> <<8, 144, 144>>,
      vdtype |-> "float64", ldtype |-> "uint8", content |-> "zeros", labs |-> <<>>],
     [vol |-> <<12, 10, 216, 256>>, lab |-> <<10, 216, 256>>,
      vdtype |-> "int16", ldtype |-> "uint8", content |-> "varied", labs |-> <<>>],
     [vol |-> <<12, 6, 154, 224>>, lab |-> <<6, 154, 224>>,
      vdtype |-> "float64", ldtype |-> "int16", content |-> "varied",
      labs |-> <<[frame |-> <<48, 50>>, shape |-> <<9, 154, 224>>]>>],
     [vol |-> <<12, 9, 100, 144>>, lab |-> <<9, 100, 144>>,
      vdtype |-> "int16", ldtype |-> "uint8", content |-> "varied", labs |-> <<>>],
     [vol |-> <<12, 5, 144, 100>>, lab |-> <<5, 144, 100>>,
      vdtype |-> "int16", ldtype |-> "uint8", content |-> "varied", labs |-> <<>>]}

Givens ==
    {[affix |-> a, run |-> r, ed |-> FrameNumerals[p[1]], es |-> FrameNumerals[p[2]],
      nl |-> LineEnds[p[3]], disk |-> d] :
        a \in Affixes, r \in DigitRuns \cup OtherRuns \cup {<<>>}, p \in FramePairs,
        d \in Disks}

DataAt(g) ==
    /\ given = g
    /\ folder_name = g.affix.pre \o g.run \o (IF g.run = <<>> THEN <<>> ELSE g.affix.suf)
    /\ info_cfg = InfoCfg(g.ed, g.es, g.nl)
    /\ disk = g.disk
    /\ dpc = "new"
    /\ self = NoData
    /\ len_ret = <<>>
    /\ item = <<>>

InitData == \E g \in Givens : DataAt(g)

IdleData ==
    DataAt([affix |-> [pre |-> <<>>, suf |-> <<>>], run |-> <<53>>,
            ed |-> [val |-> 1, text |-> <<49>>], es |-> [val |-> 1, text |-> <<49>>],
            nl |-> <<10>>,
            disk |-> [vol |-> <<2, 8, 144, 144>>, lab |-> <<8, 144, 144>>,
                      vdtype |-> "int16", ldtype |-> "uint8", content |-> "varied",
                      labs |-> <<>>]])

\* dataset = cardiacdata(folder_name)
Construct ==
    /\ dpc = "new"
    /\ self' = cardiacdata_init(folder_name, info_cfg, disk)
    /\ dpc' = IF self'.ok THEN "constructed" ELSE "raised"
    /\ UNCHANGED <<given, folder_name, info_cfg, disk, len_ret, item, netvars, cropvars>>

\* len(dataset)
LenCall ==
    /\ dpc = "constructed"
    /\ len_ret' = <<self.len>>
    /\ UNCHANGED <<given, folder_name, info_cfg, disk, dpc, self, item, netvars, cropvars>>

\* dataset[idx]
GetItem(idx) ==
    /\ dpc = "constructed"
    /\ item' = <<[idx |-> idx, res |-> cardiacdata_getitem(self, idx)]>>
    /\ UNCHANGED <<given, folder_name, info_cfg, disk, dpc, self, len_ret, netvars, cropvars>>

NextData ==
    \/ Construct
    \/ LenCall
    \/ \E idx \in {0, 1} : GetItem(idx)

----------------------------------------------------------------------------
(* Specifications *)

\* the network: construction, then forward calls
Init == InitNet /\ IdleCrop /\ IdleData

Next == NextNet

Spec == Init /\ [][Next]_vars

\* the crop functions
InitCropSpec == IdleNet /\ InitCrop /\ IdleData

SpecCrop == InitCropSpec /\ [][NextCrop]_vars

\* the dataset adapter
InitDataSpec == IdleNet /\ IdleCrop /\ InitData

SpecData == InitDataSpec /\ [][NextData]_vars

----------------------------------------------------------------------------
(* Claims about ELUNet, checked under Spec *)

\* every spatial size of the current input is a positive multiple of 2^(depth-1)
InputDivisible ==
    \A d \in 1..3 : inp.sp[d] > 0 /\ inp.sp[d] % Pow2(cfg.depth - 1) = 0

\* C1: construction yields depth encoder stages and depth-1 decoder stages;
\* encoder stage k has start_filts*2^k input and twice as many output
\* channels, each stage's input width being the previous stage's output
\* width; only the last encoder stage does not pool; every decoder stage
\* declares half the output channels of the stage before it, the first half
\* of the last encoder stage's.
C1_Construction ==
    /\ Len(down_convs) = cfg.depth
    /\ Len(up_convs) = cfg.depth - 1
    /\ \A k \in 1..Len(down_convs) :
          /\ down_convs[k].conv.in = cfg.start_filts * Pow2(k - 1)
          /\ down_convs[k].conv.out = 2 * cfg.start_filts * Pow2(k - 1)
          /\ k > 1 => /\ down_convs[k].conv.out = 2 * down_convs[k - 1].conv.out
                      /\ down_convs[k].conv.in = down_convs[k - 1].conv.out
          /\ down_convs[k].pooling = (k # Len(down_convs))
    /\ \A j \in 1..Len(up_convs) :
          2 * up_convs[j].out_channels =
              IF j = 1 THEN down_convs[Len(down_convs)].conv.out
              ELSE up_convs[j - 1].out_channels

C1_Witness ==
    /\ pc = "idle"
    /\ cfg.depth >= 3
    /\ cfg.res
    /\ cfg.start_filts >= 2
    /\ Len(down_convs) >= 3
    /\ Len(up_convs) >= 2

\* C2: a forward call on an input with the constructed number of input
\* channels never raises on a channel or size mismatch, and returns a tensor
\* of the input's batch and spatial sizes with the last decoder stage's
\* declared output channels.  Stated for the inputs most favourable to it:
\* spatial sizes that are multiples of 2^(depth-1), which every stage can
\* pool and which pooling then upsampling restores exactly.
C2_ForwardCompletes ==
    (pc \in {"done", "raised"} /\ inp.c = cfg.in_channels /\ InputDivisible)
        => /\ pc = "done"
           /\ ret # <<>>
           /\ ret[1].x.n = inp.n
           /\ ret[1].x.sp = inp.sp
           /\ Len(up_convs) > 0 => ret[1].x.c = up_convs[Len(up_convs)].out_channels

\* C3: on an input whose spatial sizes are multiples of 2^(depth-1), at every
\* decoder iteration the skip handed to the decoder stage and the pre-pool
\* map concatenated after it have the spatial size of the upsampled decoder
\* tensor, so that F.interpolate is never called.
C3_NoResample ==
    InputDivisible =>
        /\ interp = 0
        /\ (pc = "dec" /\ i < Len(up_convs)) =>
              /\ PyNegIndex(skip_connections, i + 1).sp = UpSpatial(x.sp)
              /\ PyNegIndex(encoder_outs, i + 1).sp = UpSpatial(x.sp)

\* C4: the encoder loop retains depth-1 skips, one per stage 0..depth-2 in
\* production order; decoder stage j receives the skip of encoder stage
\* depth-2-j, and once the decoder has run, which it does after every
\* completed encoder pass, each skip has been handed to exactly one stage.
C4_SkipOrder ==
    /\ pc = "dec" =>
          /\ Len(skip_connections) = cfg.depth - 1
          /\ skip_src = [k \in 1..(cfg.depth - 1) |-> k - 1]
    /\ \A j \in 1..Len(handed) : handed[j] = cfg.depth - 2 - (j - 1)
    /\ (pc \in {"done", "raised"} /\ Len(encoder_outs) = cfg.depth) =>
          \A k \in 0..(cfg.depth - 2) :
              Cardinality({j \in 1..Len(handed) : handed[j] = k}) = 1

\* C9: at every decoder iteration the channels of the decoder stage's output
\* concatenated with the pre-pool map encoder_outs[-(i+1)] number what the
\* shared convolution self.conv was constructed to accept, and self.conv
\* produces what the next decoder stage was constructed to accept.
C9_FusionWidths ==
    (pc = "dec" /\ i < Len(up_convs)) =>
        /\ up_convs[i + 1].out_channels + PyNegIndex(encoder_outs, i + 1).c = conv.in
        /\ i + 2 <= Len(up_convs) => conv.out = up_convs[i + 2].upconv.in

\* a step that starts a forward call
CallStarts == calls' = calls + 1

\* a step that ends a forward call
CallEnds == pc' \in {"done", "raised"} /\ (pc \in {"enc", "dec"} \/ CallStarts)

\* C10: no step of any forward call changes what construction fixed, and
\* self.skip_connections stays empty; a call starts with empty encoder_outs
\* and skip_connections whatever earlier calls did; a returned tuple of skips
\* has depth-1 entries; a call given the input of the first call ends as the
\* first call did.
C10_NoStateAcrossCalls ==
    [][/\ <<cfg, down_convs, up_convs, conv_start, conv_final, conv>>' =
              <<cfg, down_convs, up_convs, conv_start, conv_final, conv>>
       /\ self_skip_connections' = <<>>
       /\ CallStarts => (encoder_outs' = <<>> /\ skip_connections' = <<>>)
       /\ (CallEnds /\ pc' = "done") => Len(ret'[1].skips) = cfg.depth - 1
       /\ (CallEnds /\ first # <<>> /\ inp' = first[1].inp) =>
              (pc' = first[1].pc /\ err' = first[1].err /\ ret' = first[1].ret)
      ]_vars

C10_Witness ==
    /\ calls >= 2
    /\ pc = "raised"
    /\ first # <<>>
    /\ inp = first[1].inp
    /\ Len(skip_connections) >= 2
    /\ Len(encoder_outs) = cfg.depth

----------------------------------------------------------------------------
(* Claims about crop_img and crop_label, checked under SpecCrop *)

\* the axes of the volume given: phase (crop_img only), slice, row, column
ZAxis == IF ckind = "img" THEN 2 ELSE 1

CanonicalShape(a, k) ==
    Shape(a) = (IF k = "img" THEN <<a.shape[1]>> ELSE <<>>) \o <<8, 144, 144>>

\* the size positions starting at index from
Window(from, size) == [k \in 1..size |-> from + k - 1]

\* C6: the crop of any volume has 8 slices of 144 x 144; a volume of fewer
\* than 8 slices keeps its slices in order, followed by all-zero slices; one
\* of 8 or more keeps the 8 slices centred on floor(Z/2); the plane kept is
\* the 144 x 144 window centred on (floor(X/2), floor(Y/2)).
C6_CropShape ==
    cout # <<>> =>
        LET z == cin.shape[ZAxis]
            sx == cin.shape[ZAxis + 1]
            sy == cin.shape[ZAxis + 2]
            lead == IF ckind = "img" THEN <<cin.shape[1]>> ELSE <<>>
            r == cout[1]
            kept == [at |-> [k \in 1..Len(cin.shape) |-> 0],
                     axes |-> [k \in 1..Len(lead) |-> Arange(lead[k])]
                                 \o <<IF z < 8 THEN Window(0, z) ELSE Window((z \div 2) - 4, 8),
                                      Window((sx \div 2) - 72, 144),
                                      Window((sy \div 2) - 72, 144)>>,
                     picked |-> <<>>, fill |-> FALSE, file |-> cin.parts[1].file,
                     content |-> cin.parts[1].content, vals |-> "file"]
            zeros == [at |-> [k \in 1..Len(cin.shape) |-> IF k = ZAxis THEN z ELSE 0],
                      axes |-> [k \in 1..Len(lead) |-> [j \in 1..lead[k] |-> -1]]
                                  \o <<[j \in 1..(8 - z) |-> -1], [j \in 1..144 |-> -1],
                                       [j \in 1..144 |-> -1]>>,
                      picked |-> <<>>, fill |-> TRUE, file |-> <<>>,
                      content |-> "zeros", vals |-> "file"]
        IN  /\ r.ok
            /\ CanonicalShape(r.a, ckind)
            /\ r.a.parts = IF z < 8 THEN <<kept, zeros>> ELSE <<kept>>

\* C7: the crop of a volume that already has 8 slices of 144 x 144 is the
\* volume itself, element for element, and cropping a crop of that size
\* again changes nothing.
C7_CropIdempotent ==
    /\ (cout # <<>> /\ CanonicalShape(cin, ckind)) =>
          (cout[1].ok /\ cout[1].a = cin)
    /\ (Len(cout) >= 2 /\ CanonicalShape(cout[1].a, ckind)) =>
          (cout[2].ok /\ cout[2].a = cout[1].a)

C7_Witness ==
    /\ Len(cout) >= 2
    /\ ckind = "img"
    /\ Shape(cin) = <<2, 5, 200, 145>>
    /\ cout[2].ok
    /\ Shape(cout[2].a) = <<2, 8, 144, 144>>

----------------------------------------------------------------------------
(* Claims about cardiacdata, checked under SpecData *)

\* n written with exactly w digits
RECURSIVE Padded(_, _)
Padded(n, w) == IF w = 0 THEN <<>> ELSE Padded(n \div 10, w - 1) \o <<48 + (n % 10)>>

LabelName(n, f) ==
    IMG_DIR \o Str_patient \o Padded(n, 3) \o Str_patient \o Padded(n, 3)
            \o Str_frame \o Padded(f, 2) \o Str_gt

\* the case number written in the folder name
CaseNumber == DecimalValue(given.run)

\* the volume of the case and the label volume of frame f, as they are on disk
VolumeGiven == VolumeOn(disk, <<>>)

LabelGiven(f) == LabelOn(disk, <<>>, zfill(PyStr(f), 2))

\* the crops of the volumes on disk have 8 slices of 144 x 144
CropsCanonical ==
    /\ LET c == crop_img(VolumeGiven)
       IN  c.ok /\ Shape(c.a) = <<disk.vol[1], 8, 144, 144>>
    /\ \A f \in {given.ed.val, given.es.val} :
          LET c == crop_label(LabelGiven(f))
          IN  c.ok /\ Shape(c.a) = <<8, 144, 144>>

FramesInVolume == given.ed.val \in 1..disk.vol[1] /\ given.es.val \in 1..disk.vol[1]

\* C5 as stated: the dataset has length 1 and item 0 is an image of shape
\* (1, 1, 144, 144) with a label of shape (144, 144) and integer dtype.
C5_ItemShapeStated ==
    dpc = "constructed" =>
        \/ /\ self.len = 1
           /\ len_ret # <<>> => len_ret[1] = 1
           /\ (item # <<>> /\ item[1].idx = 0) =>
                 /\ item[1].res.ok
                 /\ Shape(item[1].res.img) = <<1, 1, 144, 144>>
                 /\ Shape(item[1].res.gt) = <<144, 144>>
                 /\ item[1].res.gt.dtype = "int64"
        \/ ~(FramesInVolume /\ CropsCanonical)

\* the block of a that holds the position pos (0-based, per axis)
PartAt(a, pos) ==
    a.parts[CHOOSE n \in 1..Len(a.parts) :
               \A k \in 1..Len(pos) :
                  /\ a.parts[n].at[k] <= pos[k]
                  /\ pos[k] < a.parts[n].at[k] + Len(a.parts[n].axes[k])]

\* the label, on axis k, of the position at index j (0-based) of that axis
LabelAt(p, j, k) == p.axes[k][j - p.at[k] + 1]

\* the 8 slices of a from index from on, on the axis after the axes lead:
\* the first is slice z of phase ph of the file name, for some z, the k-th
\* is slice z + k - 1 of that phase or a slice np.zeros filled, and a filled
\* slice is followed by filled slices only
HalfInOrder(a, lead, from, name, ph) ==
    \A k \in 1..8 :
        LET m == Len(lead) + 1
            SliceAt(j) == PartAt(a, lead \o <<from + j - 1, 0, 0>>)
            p == SliceAt(k)
            z == LabelAt(SliceAt(1), from, m)[2]
        IN  IF p.fill THEN k # 1 /\ \A j \in k..8 : SliceAt(j).fill
            ELSE /\ p.file = name
                 /\ LabelAt(p, from + k - 1, m) = <<ph, z + k - 1>>

\* C5 amended: the dataset has length 1 and item 0 is an image of shape
\* (1, 16, 144, 144) with a label of shape (16, 144, 144) and integer dtype;
\* on the axis of 16 the 8 slices cropped from the end-diastole phase come
\* first, in order, then the 8 cropped from the end-systole phase, and the
\* label holds the slices of the end-diastole label file, then those of the
\* end-systole label file.
C5_ItemShape ==
    dpc = "constructed" =>
        \/ /\ self.len = 1
           /\ len_ret # <<>> => len_ret[1] = 1
           /\ (item # <<>> /\ item[1].idx = 0) =>
                 /\ item[1].res.ok
                 /\ Shape(item[1].res.img) = <<1, 16, 144, 144>>
                 /\ Shape(item[1].res.gt) = <<16, 144, 144>>
                 /\ item[1].res.gt.dtype = "int64"
                 /\ HalfInOrder(item[1].res.img, <<0>>, 0, self.img_dir, self.ed - 1)
                 /\ HalfInOrder(item[1].res.img, <<0>>, 8, self.img_dir, self.es - 1)
                 /\ HalfInOrder(item[1].res.gt, <<>>, 0, self.gt_dir_ed, 0)
                 /\ HalfInOrder(item[1].res.gt, <<>>, 8, self.gt_dir_es, 0)
        \/ ~(FramesInVolume /\ CropsCanonical)

C5_Witness ==
    /\ dpc = "constructed"
    /\ disk.vol = <<12, 10, 216, 256>>
    /\ CropsCanonical
    /\ FramesInVolume
    /\ len_ret = <<1>>
    /\ item # <<>>
    /\ item[1].idx = 0
    /\ item[1].res.ok

VolumeName(n) ==
    IMG_DIR \o Str_patient \o Padded(n, 3) \o Str_patient \o Padded(n, 3) \o Str_4d

\* what C8 says of an instance: frames read, file names built, phases
\* selected, end-diastole before end-systole
LoaderReads ==
    /\ dpc = "constructed"
    /\ self.ed = given.ed.val
    /\ self.es = given.es.val
    /\ self.gt_dir_ed = LabelName(CaseNumber, given.ed.val)
    /\ self.gt_dir_es = LabelName(CaseNumber, given.es.val)
    /\ self.img.shape[2] = 16
    /\ \A k \in 1..16 :
          LET p == PartAt(self.img, <<0, k - 1, 0, 0>>)
          IN  IF p.fill THEN k \notin {1, 9}
              ELSE /\ p.file = VolumeName(CaseNumber)
                   /\ LabelAt(p, k - 1, 2)[1] =
                         (IF k <= 8 THEN given.ed.val - 1 ELSE given.es.val - 1)
    /\ self.gt.shape[2] = 16
    /\ \A k \in 1..16 :
          LET p == PartAt(self.gt, <<0, k - 1, 0, 0>>)
          IN  IF p.fill THEN k \notin {1, 9}
              ELSE p.file = LabelName(CaseNumber, IF k <= 8 THEN given.ed.val ELSE given.es.val)

\* the cases C8 is about, once the constructor has run: a folder name whose
\* first run of digits is a case number up to 999, frames from 1 to 99
LoaderCase ==
    /\ dpc # "new"
    /\ given.run # <<>>
    /\ CaseNumber <= 999
    /\ given.ed.val \in 1..99
    /\ given.es.val \in 1..99

AsciiRun == \A k \in 1..Len(given.run) : given.run[k] \in 48..57

====
